---- MODULE Spec2Model ----
(***************************************************************************)
(* A model of utils/learning.py: the experience buffer (StateBuffer) and   *)
(* the agent (QAgent): beta_softmax, get_action, get_loss and              *)
(* update_target_network.                                                  *)
(*                                                                         *)
(* Tensors are objects on a heap (`tensors`: identity -> contents), so     *)
(* that "the batch is a copy" is a statement about identities.             *)
(***************************************************************************)
EXTENDS Integers, Sequences, FiniteSets, TLC

VARIABLES
    buffer_size,    \* StateBuffer.buffer_size
    batch_size,     \* StateBuffer.batch_size
    buffers,        \* StateBuffer.buffers: the deque, a sequence of dicts key -> tensor identity
    tensors,        \* the heap: tensor identity -> contents (a sequence of numbers)
    batch,          \* outcome of the last get_batch call
    sinceClear,     \* history: contents of the transitions added since construction / the last clear
    op,             \* the operation that produced the current state
    gamma,          \* QAgent.gamma, a rational [num, den]
    beta_train,     \* QAgent.beta_train
    beta_sample,    \* QAgent.beta_sample
    beta_deploy,    \* QAgent.beta_deploy
    q_cap,          \* QAgent.q_cap
    network,        \* state_dict of QAgent.network: one number per entry
    target_network, \* state_dict of QAgent.target_network
    ret             \* arguments and result of the last call to a QAgent method

bufVars == <<buffer_size, batch_size, buffers, tensors, batch, sinceClear>>

agentVars == <<gamma, beta_train, beta_sample, beta_deploy, q_cap, network, target_network, ret>>

vars == <<bufVars, op, agentVars>>

----------------------------------------------------------------------------
(* Bounds of the buffer model *)

MaxBufferSize == 2
MaxBatchSize == 2
MaxAdds == 3

\* the fields of a transition the model keeps (each is one tensor), in dict order
KeyOrder == <<"state", "reward">>

Keys == {KeyOrder[i] : i \in 1 .. Len(KeyOrder)}

\* position of a key in the dict
KeyIndex(k) == CHOOSE i \in 1 .. Len(KeyOrder) : KeyOrder[i] = k

\* what a freshly recorded field may hold
DataValues == {0, 1}

\* enough identities for the stored transitions, one incoming transition and one batch
TensorIds == 1 .. ((MaxBufferSize + 2) * Cardinality(Keys))

\* an optional value: None is the empty tuple, a set value x is <<x>>
None == <<>>

Some(x) == <<x>>

NoBatch == [status |-> "none", picks |-> <<>>, dict |-> <<>>]

----------------------------------------------------------------------------
(* Helpers *)

Min(a, b) == IF a < b THEN a ELSE b

\* the last n elements of s
Suffix(s, n) == SubSeq(s, Len(s) - n + 1, Len(s))

RECURSIVE Flatten(_)
\* concatenation of a sequence of sequences: torch.stack along a new leading dimension
Flatten(ss) == IF ss = <<>> THEN <<>> ELSE Head(ss) \o Flatten(Tail(ss))

\* the i-th smallest element (i >= 1) of a finite set of integers
RECURSIVE NthSmallest(_, _)
NthSmallest(S, i) ==
    LET m == CHOOSE x \in S : \A y \in S : x <= y
    IN  IF i = 1 THEN m ELSE NthSmallest(S \ {m}, i - 1)

\* identities of the tensors a dict refers to
IdsOf(d) == {d[k] : k \in DOMAIN d}

\* identities reachable from the deque and from the batch the caller holds
Reachable(bufs, b) ==
    UNION {IdsOf(bufs[i]) : i \in 1 .. Len(bufs)} \cup IdsOf(b.dict)

\* reference counting: a tensor nothing refers to is freed
Collect(heap, bufs, b) == [id \in (DOMAIN heap) \cap Reachable(bufs, b) |-> heap[id]]

\* contents of the tensors of one dict
Deref(heap, d) == [k \in DOMAIN d |-> heap[d[k]]]

\* contents of the stored transitions, in deque order
Stored == [i \in 1 .. Len(buffers) |-> Deref(tensors, buffers[i])]

----------------------------------------------------------------------------
(* StateBuffer *)

\* a deque that drops the newest stored element instead of the oldest
DequeAppendDropNewest(dq, maxlen, x) ==
    IF maxlen = 0 THEN dq
    ELSE IF Len(dq) = maxlen THEN Append(SubSeq(dq, 1, Len(dq) - 1), x)
    ELSE Append(dq, x)

\* deque.append on a deque(maxlen=n): at capacity the leftmost element is dropped
DequeAppend(dq, maxlen, x) ==
    IF maxlen = 0 THEN dq
    ELSE IF Len(dq) = maxlen THEN Append(Tail(dq), x)
    ELSE Append(dq, x)

\* sampling with replacement (random.choices): positions may repeat
RandomChoices(n, k) == [1 .. k -> 1 .. n]

\* random.sample(population of size n, k): k distinct positions, in any order
RandomSample(n, k) ==
    {p \in [1 .. k -> 1 .. n] : \A i, j \in 1 .. k : i # j => p[i] # p[j]}

\* torch.stack([d[key] for d in batch]): a new tensor holding the rows' contents
Stack(heap, rows, key) == Flatten([i \in 1 .. Len(rows) |-> heap[rows[i][key]]])

\* no agent has been constructed
NoAgent ==
    /\ gamma = [num |-> 0, den |-> 1]
    /\ beta_train = None
    /\ beta_sample = None
    /\ beta_deploy = None
    /\ q_cap = None
    /\ network = <<>>
    /\ target_network = <<>>
    /\ ret = [fn |-> "none"]

\* StateBuffer.__init__
InitBuffer ==
    /\ buffer_size \in 0 .. MaxBufferSize
    /\ batch_size \in 1 .. MaxBatchSize
    /\ buffers = <<>>
    /\ tensors = <<>>
    /\ batch = NoBatch
    /\ sinceClear = <<>>
    /\ op = "init"
    /\ NoAgent

\* StateBuffer.add(data): the caller builds the dict of tensors, add appends the
\* reference.  The training loop has consumed and dropped its last batch by then.
add ==
    /\ Len(sinceClear) < MaxAdds
    /\ \E vals \in [Keys -> DataValues] :
         LET free == TensorIds \ DOMAIN tensors
             data == [k \in Keys |-> NthSmallest(free, KeyIndex(k))]
             heap == [id \in (DOMAIN tensors) \cup IdsOf(data) |->
                        IF id \in DOMAIN tensors THEN tensors[id]
                        ELSE <<vals[CHOOSE k \in Keys : data[k] = id]>>]
             dq == DequeAppend(buffers, buffer_size, data)
         IN  /\ buffers' = dq
             /\ tensors' = Collect(heap, dq, NoBatch)
             /\ sinceClear' = Append(sinceClear, [k \in Keys |-> <<vals[k]>>])
    /\ batch' = NoBatch
    /\ op' = "add"
    /\ UNCHANGED <<buffer_size, batch_size>>
    /\ UNCHANGED agentVars

\* StateBuffer.get_batch(), the raising branch
get_batch_fail ==
    /\ Len(buffers) < batch_size
    /\ batch' = [status |-> "ValueError", picks |-> <<>>, dict |-> <<>>]
    /\ tensors' = Collect(tensors, buffers, batch')
    /\ op' = "get_batch"
    /\ UNCHANGED <<buffer_size, batch_size, buffers, sinceClear>>
    /\ UNCHANGED agentVars

\* a get_batch that hands out the first sampled row's own tensors instead of stacking
BatchDictAlias(heap, rows) ==
    [ids |-> [k \in Keys |-> rows[1][k]],
     data |-> [k \in Keys |-> heap[rows[1][k]]]]

\* the dict get_batch returns for the sampled rows: one new stacked tensor per key
BatchDict(heap, rows) ==
    LET held == UNION {IdsOf(buffers[i]) : i \in 1 .. Len(buffers)}
        free == TensorIds \ held
    IN  [ids |-> [k \in Keys |-> NthSmallest(free, KeyIndex(k))],
         data |-> [k \in Keys |-> Stack(heap, rows, k)]]

\* StateBuffer.get_batch(), the sampling branch
get_batch_ok ==
    /\ Len(buffers) >= batch_size
    /\ \E picks \in RandomSample(Len(buffers), batch_size) :
         LET rows == [i \in 1 .. batch_size |-> buffers[picks[i]]]
             bd == BatchDict(tensors, rows)
             kept == [id \in Reachable(buffers, NoBatch) |-> tensors[id]]
             heap == [id \in (DOMAIN kept) \cup IdsOf(bd.ids) |->
                        IF id \in IdsOf(bd.ids)
                        THEN bd.data[CHOOSE k \in Keys : bd.ids[k] = id]
                        ELSE kept[id]]
         IN  /\ batch' = [status |-> "ok", picks |-> picks, dict |-> bd.ids]
             /\ tensors' = heap
    /\ op' = "get_batch"
    /\ UNCHANGED <<buffer_size, batch_size, buffers, sinceClear>>
    /\ UNCHANGED agentVars

\* StateBuffer.clear()
clear ==
    /\ buffers' = <<>>
    /\ tensors' = Collect(tensors, <<>>, NoBatch)
    /\ sinceClear' = <<>>
    /\ batch' = NoBatch
    /\ op' = "clear"
    /\ UNCHANGED <<buffer_size, batch_size>>
    /\ UNCHANGED agentVars

\* the caller writes once into a tensor of the batch it was just handed (in place)
mutate_batch ==
    /\ op = "get_batch"
    /\ batch.status = "ok"
    /\ \E k \in Keys, v \in DataValues :
         LET id == batch.dict[k]
         IN  \E i \in 1 .. Len(tensors[id]) :
               /\ tensors[id][i] # v
               /\ tensors' = [tensors EXCEPT ![id][i] = v]
    /\ op' = "mutate_batch"
    /\ UNCHANGED <<buffer_size, batch_size, buffers, batch, sinceClear>>
    /\ UNCHANGED agentVars

NextBuffer ==
    \/ add
    \/ get_batch_fail
    \/ get_batch_ok
    \/ clear
    \/ mutate_batch

SpecBuffer == InitBuffer /\ [][NextBuffer]_vars

----------------------------------------------------------------------------
(* float32 values                                                          *)
(*                                                                         *)
(* A finite value is m * 10^9 + r, kept as the pair (m, r): m counts the   *)
(* -1e9 masks that were added (and what multiplying by beta made of them), *)
(* r is the part that came from the approximator. Values of the            *)
(* approximator are small against 1e9, so pairs compare lexicographically. *)
(* Next to 1e9 a float32 has a spacing of 64, so r is rounded there.       *)
(***************************************************************************)

Fin(m, r) == [k |-> "fin", m |-> m, r |-> r]

PInf == [k |-> "pinf", m |-> 0, r |-> 0]

NInf == [k |-> "ninf", m |-> 0, r |-> 0]

NaN == [k |-> "nan", m |-> 0, r |-> 0]

Abs(x) == IF x < 0 THEN -x ELSE x

\* spacing of float32 around m * 1e9
Ulp(m) ==
    IF Abs(m) = 0 THEN 1
    ELSE IF Abs(m) = 1 THEN 64
    ELSE IF Abs(m) = 2 THEN 128
    ELSE IF Abs(m) <= 4 THEN 256
    ELSE 512

\* r rounded to the nearest multiple of u, ties to the even multiple
RoundTo(r, u) ==
    LET q == r \div u
        rem == r - q * u
    IN  IF 2 * rem < u THEN q * u
        ELSE IF 2 * rem > u THEN (q + 1) * u
        ELSE IF q % 2 = 0 THEN q * u ELSE (q + 1) * u

\* the float32 nearest to m * 1e9 + r
Round32(m, r) == Fin(m, RoundTo(r, Ulp(m)))

\* a + b
FAdd(a, b) ==
    IF a.k = "nan" \/ b.k = "nan" THEN NaN
    ELSE IF a.k = "pinf" THEN (IF b.k = "ninf" THEN NaN ELSE PInf)
    ELSE IF a.k = "ninf" THEN (IF b.k = "pinf" THEN NaN ELSE NInf)
    ELSE IF b.k # "fin" THEN b
    ELSE Round32(a.m + b.m, a.r + b.r)

\* a * n for an integer n
FMulInt(a, n) ==
    IF a.k = "nan" THEN NaN
    ELSE IF a.k = "fin" THEN Round32(a.m * n, a.r * n)
    ELSE IF n = 0 THEN NaN
    ELSE IF (a.k = "pinf") = (n > 0) THEN PInf ELSE NInf

\* a < b for finite a, b
FinLess(a, b) == a.m < b.m \/ (a.m = b.m /\ a.r < b.r)

\* a > b as floats compare: anything against NaN is false
FGreater(a, b) ==
    IF a.k = "nan" \/ b.k = "nan" THEN FALSE
    ELSE IF a.k = "pinf" THEN b.k # "pinf"
    ELSE IF a.k = "ninf" THEN FALSE
    ELSE IF b.k = "pinf" THEN FALSE
    ELSE IF b.k = "ninf" THEN TRUE
    ELSE FinLess(b, a)

\* tensor.clamp(max=cap) on one element: NaN stays NaN
Clamp(a, cap) ==
    IF a.k = "nan" THEN NaN
    ELSE IF FGreater(a, cap) THEN cap
    ELSE a

RECURSIVE Pow2(_)
Pow2(n) == IF n = 0 THEN 1 ELSE 2 * Pow2(n - 1)

RECURSIVE SumSeq(_)
SumSeq(s) == IF s = <<>> THEN 0 ELSE Head(s) + SumSeq(Tail(s))

----------------------------------------------------------------------------
(* QAgent.beta_softmax                                                     *)
(*                                                                         *)
(* A tensor of shape (batch, action) is a sequence of rows. A row of       *)
(* probabilities is [w, d]: action a has probability w[a] / d; d = 0       *)
(* stands for a row of NaN.                                                *)
(***************************************************************************)

\* number of actions (action_size)
NumActions == 2

\* exp() keeps ExpRange binary orders of magnitude below the row's maximum and
\* underflows to 0 beyond
ExpRange == 4

Actions == 1 .. NumActions

\* torch.argmax along the last dimension: the first maximal element, NaN counting as maximal
ArgMax(row) ==
    IF \E a \in DOMAIN row : row[a].k = "nan"
    THEN CHOOSE a \in DOMAIN row :
            /\ row[a].k = "nan"
            /\ \A b \in DOMAIN row : row[b].k = "nan" => a <= b
    ELSE CHOOSE a \in DOMAIN row :
            /\ \A b \in DOMAIN row : ~FGreater(row[b], row[a])
            /\ \A b \in DOMAIN row : b < a => FGreater(row[a], row[b])

\* the largest element of a row without NaN
RowMax(row) == row[ArgMax(row)]

\* exp(x - max) in units of 2^-ExpRange, for finite x <= max
ExpWeight(x, max) ==
    IF x.k = "ninf" THEN 0
    ELSE IF x.m < max.m THEN 0
    ELSE IF x.r - max.r < -ExpRange THEN 0
    ELSE Pow2(ExpRange + (x.r - max.r))

NaNRow == [w |-> <<>>, d |-> 0]

\* F.softmax(row, dim=-1): exp(x - max) / sum; inf - inf and anything with NaN give NaN
Softmax(row) ==
    IF \E a \in DOMAIN row : row[a].k \in {"nan", "pinf"} THEN NaNRow
    ELSE IF \A a \in DOMAIN row : row[a].k = "ninf" THEN NaNRow
    ELSE LET max == RowMax(row)
             w == [a \in DOMAIN row |-> ExpWeight(row[a], max)]
         IN  [w |-> w, d |-> SumSeq(w)]

\* zeros_like(row) with a 1 at the arg-max
OneHot(row) ==
    [w |-> [a \in DOMAIN row |-> IF a = ArgMax(row) THEN 1 ELSE 0], d |-> 1]

\* torch.ones_like: an unnormalised row of ones
OnesRow(n) == [w |-> [a \in 1 .. n |-> 1], d |-> 1]

\* (~action_validity).float() * -1e9, one element
MaskOf(valid) == IF valid THEN Fin(0, 0) ELSE Fin(-1, 0)

\* outputs + mask, elementwise
AddMask(outputs, validity) ==
    [b \in DOMAIN outputs |->
        [a \in DOMAIN outputs[b] |-> FAdd(outputs[b][a], MaskOf(validity[b][a]))]]

\* the beta a mode selects
BetaOf(mode, bs, bt, bd) ==
    IF mode = "sample" THEN bs
    ELSE IF mode = "train" THEN bt
    ELSE bd

\* beta_softmax(outputs, mode, action_validity) of an agent with the given betas
BetaSoftmax(bs, bt, bd, outputs, mode, action_validity) ==
    LET beta == BetaOf(mode, bs, bt, bd)
        masked == IF action_validity # None THEN AddMask(outputs, action_validity)
                  ELSE outputs
        probabilities ==
            [b \in DOMAIN masked |->
                IF beta # None
                THEN Softmax([a \in DOMAIN masked[b] |-> FMulInt(masked[b][a], beta[1])])
                ELSE OneHot(masked[b])]
        \* probabilities.max() < 0 never holds: the weights are not negative, and a
        \* comparison with NaN is false
        nonfinite == \E b \in DOMAIN probabilities : probabilities[b].d = 0
    IN  IF nonfinite
        THEN [b \in DOMAIN probabilities |-> OnesRow(Len(masked[b]))]
        ELSE probabilities

----------------------------------------------------------------------------
(* QAgent: construction and the inputs the calls are tried on *)

\* rows of a batch
MaxRows == 2

\* values an approximator may produce for one action; PInf stands for a value
\* that overflowed
QValues == {Fin(0, 1), Fin(0, 3), PInf}

\* settings of a temperature
BetaValues == {None, Some(0), Some(1), Some(2)}

Modes == {"sample", "train", "deploy"}

\* rows of values
QRows == [Actions -> QValues]

\* rows of a validity mask
MaskRows == [Actions -> BOOLEAN]

\* the rows a batch may hold after its first row: finite ones, or ones with an overflow
OtherQRows ==
    {[a \in Actions |-> Fin(0, 1)], [a \in Actions |-> IF a = 1 THEN PInf ELSE Fin(0, 1)]}

\* the rows after the first: n copies of one of the rows above
OtherRows(n) == {[i \in 1 .. n |-> row] : row \in OtherQRows}

\* value tensors of shape (1 .. MaxRows, NumActions)
QBatches ==
    UNION {{<<first>> \o rest : first \in QRows, rest \in OtherRows(n - 1)} :
              n \in 1 .. MaxRows}

AllValid == [a \in Actions |-> TRUE]

\* validity masks of n rows: any first row, the other rows all valid
MaskBatches(n) == {<<first>> \o [i \in 1 .. n - 1 |-> AllValid] : first \in MaskRows}

\* the masks of recorded transitions: the action taken was valid, so some action is
TakenMaskBatches(n) == {v \in MaskBatches(n) : \E a \in Actions : v[1][a]}

\* q_cap as __init__ computes it, (1/(1-gamma)) * reward_cap; the gammas used
\* make 1/(1-gamma) a whole number
QCapOf(g, reward_cap) ==
    IF reward_cap = None THEN None
    ELSE Some(Fin(0, (g.den \div (g.den - g.num)) * reward_cap[1]))

\* no buffer is in use
NoBuffer ==
    /\ buffer_size = 0
    /\ batch_size = 1
    /\ buffers = <<>>
    /\ tensors = <<>>
    /\ batch = NoBatch
    /\ sinceClear = <<>>

\* QAgent.__init__ with arguments from the given sets; the target starts as a copy
QAgentInit(gammas, trains, samples, deploys, reward_caps, params) ==
    /\ gamma \in gammas
    /\ beta_train \in trains
    /\ beta_sample \in samples
    /\ beta_deploy \in deploys
    /\ \E rc \in reward_caps : q_cap = QCapOf(gamma, rc)
    /\ network \in params
    /\ target_network = network
    /\ ret = [fn |-> "none"]
    /\ op = "init"
    /\ NoBuffer

agentConfig == <<gamma, beta_train, beta_sample, beta_deploy, q_cap>>

\* the caller has used the result of the last call; the calls below are made one
\* at a time, each on an agent whose last result has been taken
take_result ==
    /\ ret.fn # "none"
    /\ ret' = [fn |-> "none"]
    /\ op' = "idle"
    /\ UNCHANGED <<bufVars, agentConfig, network, target_network>>

----------------------------------------------------------------------------
(* The policy module on its own *)

InitPolicy ==
    QAgentInit({[num |-> 1, den |-> 2]}, BetaValues, BetaValues, BetaValues, {None}, {<<>>})

\* a call of beta_softmax
beta_softmax ==
    /\ ret.fn = "none"
    /\ \E outputs \in QBatches, mode \in Modes :
         \E action_validity \in {None} \cup MaskBatches(Len(outputs)) :
            ret' = [fn |-> "beta_softmax",
                    outputs |-> outputs,
                    mode |-> mode,
                    action_validity |-> action_validity,
                    probabilities |->
                        BetaSoftmax(beta_sample, beta_train, beta_deploy,
                                    outputs, mode, action_validity)]
    /\ op' = "beta_softmax"
    /\ UNCHANGED <<bufVars, agentConfig, network, target_network>>

NextPolicy ==
    \/ beta_softmax
    \/ take_result

SpecPolicy == InitPolicy /\ [][NextPolicy]_vars

----------------------------------------------------------------------------
(* QAgent.get_action *)

\* the index tensors torch.multinomial(probabilities, 1) can return: per row an
\* action of positive probability
MultinomialDraws(probabilities) ==
    {s \in [DOMAIN probabilities -> Actions] :
        \A b \in DOMAIN probabilities : probabilities[b].w[s[b]] > 0}

\* torch.multinomial rejects a row that is not finite or sums to zero
Degenerate(probabilities) ==
    \E b \in DOMAIN probabilities :
        \/ probabilities[b].d = 0
        \/ \A a \in DOMAIN probabilities[b].w : probabilities[b].w[a] = 0

\* torch.argmax(probabilities, dim=-1): per row the first action of the largest weight
ArgMaxRows(probabilities) ==
    [b \in DOMAIN probabilities |->
        CHOOSE a \in DOMAIN probabilities[b].w :
            /\ \A c \in DOMAIN probabilities[b].w :
                  probabilities[b].w[c] <= probabilities[b].w[a]
            /\ \A c \in DOMAIN probabilities[b].w :
                  c < a => probabilities[b].w[c] < probabilities[b].w[a]]

\* a return that takes the scalar form only for a tensor of shape (1, 1)
ReturnOfSampledOnly(output) ==
    IF output.shape = <<1, 1>>
    THEN [kind |-> "int", value |-> output.data[1]]
    ELSE [kind |-> "list", value |-> output.data]

\* output.item() if output.shape[0] == 1 else output.flatten().tolist()
ReturnOf(output) ==
    IF output.shape[1] = 1
    THEN [kind |-> "int", value |-> output.data[1]]
    ELSE [kind |-> "list", value |-> output.data]

\* the temperatures get_action is tried with
ActionBetas == {None, Some(0), Some(1)}

InitAction ==
    QAgentInit({[num |-> 1, den |-> 2]}, {None}, ActionBetas, ActionBetas, {None}, {<<>>})

\* what get_action computes before it samples
GetActionCall(outputs, mode, action_validity) ==
    [fn |-> "get_action",
     outputs |-> outputs,
     mode |-> mode,
     action_validity |-> action_validity,
     probabilities |-> BetaSoftmax(beta_sample, beta_train, beta_deploy,
                                   outputs, mode, action_validity)]

\* get_action, torch.multinomial returning a draw
get_action_sampled ==
    /\ ret.fn = "none"
    /\ \E outputs \in QBatches, mode \in {"sample", "deploy"} :
         \E action_validity \in {None} \cup MaskBatches(Len(outputs)) :
            LET call == GetActionCall(outputs, mode, action_validity)
            IN  /\ ~Degenerate(call.probabilities)
                /\ \E draw \in MultinomialDraws(call.probabilities) :
                      ret' = call @@
                             [sampling_failed |-> FALSE,
                              result |-> ReturnOf([shape |-> <<Len(outputs), 1>>,
                                                   data |-> draw])]
    /\ op' = "get_action"
    /\ UNCHANGED <<bufVars, agentConfig, network, target_network>>

\* get_action, torch.multinomial raising: a degenerate distribution, or any other
\* failure of the call (the handler catches every Exception)
get_action_fallback ==
    /\ ret.fn = "none"
    /\ \E outputs \in QBatches, mode \in {"sample", "deploy"} :
         \E action_validity \in {None} \cup MaskBatches(Len(outputs)) :
            LET call == GetActionCall(outputs, mode, action_validity)
            IN  ret' = call @@
                       [sampling_failed |-> TRUE,
                        result |-> ReturnOf([shape |-> <<Len(outputs)>>,
                                             data |-> ArgMaxRows(call.probabilities)])]
    /\ op' = "get_action"
    /\ UNCHANGED <<bufVars, agentConfig, network, target_network>>

NextAction ==
    \/ get_action_sampled
    \/ get_action_fallback
    \/ take_result

SpecAction == InitAction /\ [][NextAction]_vars

----------------------------------------------------------------------------
(* QAgent.get_loss: the bootstrapped target (the part under torch.no_grad)  *)
(*                                                                         *)
(* A weighted sum of values is [k, m, r, d]: the number (m * 1e9 + r) / d  *)
(* when k = "fin". Sums and products are taken exactly.                    *)
(***************************************************************************)

\* p * c for a probability w / d and a value c, in units of 1 / d
Term(w, c) ==
    IF c.k = "nan" THEN NaN
    ELSE IF c.k = "fin" THEN Fin(w * c.m, w * c.r)
    ELSE IF w = 0 THEN NaN
    ELSE c

\* a + b without rounding
AddExact(a, b) ==
    IF a.k = "nan" \/ b.k = "nan" THEN NaN
    ELSE IF a.k = "pinf" THEN (IF b.k = "ninf" THEN NaN ELSE PInf)
    ELSE IF a.k = "ninf" THEN (IF b.k = "pinf" THEN NaN ELSE NInf)
    ELSE IF b.k # "fin" THEN b
    ELSE Fin(a.m + b.m, a.r + b.r)

RECURSIVE SumTerms(_, _, _)
\* the sum over the actions a .. Len(row) of probability * value
SumTerms(p, row, a) ==
    IF a > Len(row) THEN Fin(0, 0)
    ELSE AddExact(Term(p.w[a], row[a]), SumTerms(p, row, a + 1))

\* torch.einsum("ba,ba->b", probabilities, values), one row
Einsum(p, row) ==
    LET t == SumTerms(p, row, 1) IN [k |-> t.k, m |-> t.m, r |-> t.r, d |-> p.d]

\* reward + gamma * next_value
TargetOf(reward, g, nv) ==
    IF nv.k # "fin" THEN nv
    ELSE [k |-> "fin",
          m |-> g.num * nv.m,
          r |-> reward * g.den * nv.d + g.num * nv.r,
          d |-> g.den * nv.d]

\* next_q_values.clamp(max=q_cap) when a cap is set
Capped(next_q_values) ==
    IF q_cap # None
    THEN [b \in DOMAIN next_q_values |->
            [a \in DOMAIN next_q_values[b] |-> Clamp(next_q_values[b][a], q_cap[1])]]
    ELSE next_q_values

\* the validity mask get_loss hands to beta_softmax for the next state's values
TargetPolicyMask(data) == data.action_validity

\* per-step rewards
Rewards == {0, 1}

\* the batches get_loss is tried on: target outputs for next_state, both masks, rewards
LossBatches ==
    UNION {{[next_out |-> <<q>> \o rest,
             action_validity |-> av,
             next_state_action_validity |-> nav,
             reward |-> <<rw>> \o [i \in 1 .. n - 1 |-> 0]] :
               q \in QRows, rest \in OtherRows(n - 1),
               av \in TakenMaskBatches(n), nav \in MaskBatches(n), rw \in Rewards} :
           n \in 1 .. MaxRows}

InitLoss ==
    QAgentInit({[num |-> 1, den |-> 2]}, BetaValues, {None}, {None},
               {None, Some(1)}, {<<>>})

\* get_loss(data) up to target_rewards.  The rest of the method (the gathered
\* prediction, the smooth L1 loss and the KL diagnostic) is computed from these
\* and from the online approximator's outputs, and writes nothing.
get_loss ==
    /\ ret.fn = "none"
    /\ \E data \in LossBatches :
         LET next_q_values == AddMask(data.next_out, data.next_state_action_validity)
             next_q_values_capped == Capped(next_q_values)
             next_probabilities ==
                 BetaSoftmax(beta_sample, beta_train, beta_deploy,
                             next_q_values, "train", TargetPolicyMask(data))
             next_values == [b \in DOMAIN next_q_values |->
                               Einsum(next_probabilities[b], next_q_values_capped[b])]
             target_rewards == [b \in DOMAIN next_values |->
                                  TargetOf(data.reward[b], gamma, next_values[b])]
         IN  ret' = [fn |-> "get_loss",
                     data |-> data,
                     next_q_values |-> next_q_values,
                     next_probabilities |-> next_probabilities,
                     next_values |-> next_values,
                     target_rewards |-> target_rewards]
    /\ op' = "get_loss"
    /\ UNCHANGED <<bufVars, agentConfig, network, target_network>>

NextLoss ==
    \/ get_loss
    \/ take_result

SpecLoss == InitLoss /\ [][NextLoss]_vars

----------------------------------------------------------------------------
(* QAgent.update_target_network *)

\* entries of a state_dict
NumParams == 2

\* largest magnitude of an entry the model follows
MaxParam == 1

\* values of tau; whole numbers keep the entries whole
TauValues == {0, 1, 2}

ParamValues == (0 - MaxParam) .. MaxParam

\* the update with the two weights exchanged
UpdateParamSwapped(t, p, tau) == t * tau + p * (1 - tau)

\* target * (1 - tau) + param * tau
UpdateParam(t, p, tau) == t * (1 - tau) + p * tau

InitTarget ==
    QAgentInit({[num |-> 1, den |-> 2]}, {None}, {None}, {None}, {None},
               [1 .. NumParams -> {0, 1}])

\* the external optimizer changes one entry of the online approximator
optimizer_step ==
    /\ \E i \in 1 .. NumParams, step \in {-1, 1} :
         LET v == network[i] + step IN
         /\ v \in ParamValues
         /\ network' = [network EXCEPT ![i] = v]
    /\ ret' = [fn |-> "none"]
    /\ op' = "optimizer_step"
    /\ UNCHANGED <<bufVars, agentConfig, target_network>>

\* update_target_network(tau): copy_ into each entry of the target's state_dict
update_target_network ==
    /\ \E tau \in TauValues :
         LET new == [i \in DOMAIN target_network |->
                        UpdateParam(target_network[i], network[i], tau)]
         IN  /\ \A i \in DOMAIN new : new[i] \in ParamValues
             /\ target_network' = new
             /\ ret' = [fn |-> "update_target_network", tau |-> tau,
                        changed |-> (new # target_network)]
    /\ op' = "update_target_network"
    /\ UNCHANGED <<bufVars, agentConfig, network>>

NextTarget ==
    \/ optimizer_step
    \/ update_target_network

SpecTarget == InitTarget /\ [][NextTarget]_vars

----------------------------------------------------------------------------
(* Properties of the experience buffer *)

\* C1: len() never exceeds buffer_size, and the deque holds exactly the most
\* recent min(buffer_size, n) of the n transitions added since the last clear,
\* in insertion order (so after buffer_size + k adds the oldest k are gone and
\* len() = buffer_size).
C1_MostRecent ==
    /\ Len(buffers) <= buffer_size
    /\ Len(buffers) = Min(buffer_size, Len(sinceClear))
    /\ Stored = Suffix(sinceClear, Len(buffers))

\* more transitions were added than the buffer holds
C1_Witness ==
    /\ op = "add"
    /\ buffer_size >= 2
    /\ Len(sinceClear) > buffer_size

\* C2: right after get_batch, the call failed with ValueError exactly when fewer
\* than batch_size transitions were stored; otherwise the batch stacks batch_size
\* transitions taken from pairwise distinct positions of the deque, and all
\* positions when exactly batch_size are stored.
C2_GetBatch ==
    op = "get_batch" =>
        /\ batch.status \in {"ok", "ValueError"}
        /\ batch.status = "ValueError" <=> Len(buffers) < batch_size
        /\ batch.status = "ok" =>
              /\ DOMAIN batch.picks = 1 .. batch_size
              /\ \A i \in 1 .. batch_size : batch.picks[i] \in 1 .. Len(buffers)
              /\ \A i, j \in 1 .. batch_size :
                    i # j => batch.picks[i] # batch.picks[j]
              /\ \A k \in Keys :
                    tensors[batch.dict[k]] =
                        Flatten([i \in 1 .. batch_size |-> Stored[batch.picks[i]][k]])
              /\ Len(buffers) = batch_size =>
                    {batch.picks[i] : i \in 1 .. batch_size} = 1 .. Len(buffers)

\* a batch of two rows was drawn from a buffer holding exactly two transitions
C2_Witness ==
    /\ op = "get_batch"
    /\ batch.status = "ok"
    /\ batch_size = 2
    /\ Len(buffers) = batch_size

\* C10: get_batch, failing or not, and any later write into the returned batch
\* leave the deque, its order and the contents of the stored transitions as
\* they were; the batch's tensors are not the stored ones.
C10_GetBatchFrame ==
    [][op' \in {"get_batch", "mutate_batch"} =>
          /\ buffers' = buffers
          /\ Stored' = Stored
          /\ IdsOf(batch'.dict) \cap Reachable(buffers', NoBatch) = {}]_vars

\* the caller has written into a batch drawn from the buffer
C10_Witness ==
    /\ op = "mutate_batch"
    /\ batch.status = "ok"
    /\ Len(buffers) >= batch_size

----------------------------------------------------------------------------
(* Properties of the policy module *)

\* every value of the row is finite
FiniteRow(row) == \A a \in DOMAIN row : row[a].k = "fin"

\* the row's mask marks some action valid
SomeValid(mask) == \E a \in DOMAIN mask : mask[a]

\* C3: beta_softmax called with a validity mask gives probability zero to every
\* action the mask marks invalid, in every mode and for every beta.  Stated for
\* the rows where it can hold at all: some action is valid, and the values of
\* the whole batch are finite.
C3_InvalidGetZero ==
    (ret.fn = "beta_softmax" /\ ret.action_validity # None
        /\ \A b \in DOMAIN ret.outputs : FiniteRow(ret.outputs[b])) =>
        \A b \in DOMAIN ret.outputs :
            SomeValid(ret.action_validity[b]) =>
                \A a \in Actions :
                    ~ret.action_validity[b][a] => ret.probabilities[b].w[a] = 0

\* the valid action of the largest value, the lowest index among ties
BestValid(row, mask) ==
    CHOOSE a \in DOMAIN row :
        /\ mask[a]
        /\ \A c \in DOMAIN row : mask[c] => ~FGreater(row[c], row[a])
        /\ \A c \in DOMAIN row : (mask[c] /\ c < a) => FGreater(row[a], row[c])

\* C9: when the beta of the mode is unset, every row with a valid action gets
\* the one-hot distribution on its arg-max valid action (lowest index among ties).
C9_GreedyOneHot ==
    (ret.fn = "beta_softmax"
        /\ BetaOf(ret.mode, beta_sample, beta_train, beta_deploy) = None) =>
        \A b \in DOMAIN ret.outputs :
            LET mask == IF ret.action_validity = None THEN AllValid
                        ELSE ret.action_validity[b]
            IN  SomeValid(mask) =>
                  /\ ret.probabilities[b].d = 1
                  /\ \A a \in Actions :
                        ret.probabilities[b].w[a] =
                            IF a = BestValid(ret.outputs[b], mask) THEN 1 ELSE 0

----------------------------------------------------------------------------
(* Properties of get_action *)

\* the action indices a get_action result holds, one per row
ReturnedActions(result) ==
    IF result.kind = "int" THEN <<result.value>> ELSE result.value

\* C7: called with a mask that marks some action valid in every row, get_action
\* returns only actions the mask marks valid.  Stated for finite values.
C7_ActionIsValid ==
    (ret.fn = "get_action" /\ ret.action_validity # None
        /\ \A b \in DOMAIN ret.outputs :
              FiniteRow(ret.outputs[b]) /\ SomeValid(ret.action_validity[b])) =>
        \A b \in DOMAIN ret.outputs :
            ret.action_validity[b][ReturnedActions(ret.result)[b]]

\* C8: when sampling fails, get_action still returns: the per-row arg-max of the
\* probabilities, as a scalar for a batch of one row and as one index per row
\* otherwise.
C8_FallbackForm ==
    (ret.fn = "get_action" /\ ret.sampling_failed) =>
        /\ ret.result.kind = (IF Len(ret.outputs) = 1 THEN "int" ELSE "list")
        /\ ret.result.kind = "int" => ret.result.value \in Actions
        /\ ret.result.kind = "list" => Len(ret.result.value) = Len(ret.outputs)
        /\ \A b \in DOMAIN ret.outputs :
              LET a == ReturnedActions(ret.result)[b]
                  w == ret.probabilities[b].w
              IN  /\ a \in Actions
                  /\ \A c \in Actions : w[c] <= w[a]
                  /\ \A c \in Actions : c < a => w[c] < w[a]

\* sampling failed on a batch of one row, on a row whose best action is not the first
C8_Witness ==
    /\ ret.fn = "get_action"
    /\ ret.sampling_failed
    /\ Len(ret.outputs) = 1
    /\ ret.result.kind = "int"
    /\ ret.result.value > 1

----------------------------------------------------------------------------
(* Properties of get_loss *)

\* C4: the target-policy distribution is beta_softmax in train mode of the next
\* state's values with the next state's validity mask.
C4_NextStateMask ==
    ret.fn = "get_loss" =>
        ret.next_probabilities =
            BetaSoftmax(beta_sample, beta_train, beta_deploy, ret.next_q_values,
                        "train", ret.data.next_state_action_validity)

\* t <= reward + gamma * cap, for a target t and a finite cap
AtMostCapped(t, reward, g, cap) ==
    \/ t.k = "ninf"
    \/ /\ t.k = "fin"
       /\ \/ t.m < 0
          \/ /\ t.m = 0
             /\ t.r * g.den <= (reward * g.den + g.num * cap.r) * t.d

\* C5: with a cap set, every row's target is at most reward + gamma * q_cap,
\* whatever the target approximator produced.
C5_TargetCapped ==
    (ret.fn = "get_loss" /\ q_cap # None) =>
        \A b \in DOMAIN ret.target_rewards :
            AtMostCapped(ret.target_rewards[b], ret.data.reward[b], gamma, q_cap[1])

----------------------------------------------------------------------------
(* Properties of update_target_network *)

\* C6: update_target_network leaves the online entries alone; with tau = 1 the
\* target's entries become the online ones, with tau = 0 they stay as they were.
C6_TargetUpdate ==
    [][op' = "update_target_network" =>
          /\ network' = network
          /\ ret'.tau = 1 => target_network' = network
          /\ ret'.tau = 0 => target_network' = target_network]_vars

\* a full copy (tau = 1) has just replaced a target that differed from the online entries
C6_Witness ==
    /\ op = "update_target_network"
    /\ ret.tau = 1
    /\ ret.changed
    /\ target_network = network

====
